---- MODULE Spec2Model ----
(***************************************************************************)
(* The streamed research session of RepoChatDashboard                      *)
(* (src/frontend/components/repo-chat-dashboard.tsx) and the log cleaning  *)
(* route it calls (src/frontend/app/api/clean-log/route.ts), and the       *)
(* analysis request of RepoAnalyticsDashboard                              *)
(* (src/frontend/components/repo-analytics-dashboard.tsx).                 *)
(*                                                                         *)
(* Text is a sequence of atoms.  An atom is one character, or one literal  *)
(* word of the protocol or of the code (a JSON key with its quotes and     *)
(* colon, an event type, a fixed message).  The stream is a sequence of    *)
(* bytes; every atom is one byte except U+00E9, which is the two bytes     *)
(* C3 A9.                                                                  *)
(*                                                                         *)
(* A JavaScript value is a record [k, v]: k is its kind, v its content.    *)
(***************************************************************************)
EXTENDS Integers, Sequences, FiniteSets, TLC

VARIABLES
  ui,           \* the component's React state: isLoading, researchResult, logs, similarFiles, apiError
  sess,         \* one record per invocation of handleSubmit
  modalApiUrl,  \* process.env.NEXT_PUBLIC_MODAL_API_URL
  alertMsg,     \* the alert() dialog on screen, <<>> when there is none
  route,        \* the last call served by the clean-log route module on its own
  analytics     \* RepoAnalyticsDashboard: its prop, its React state, its requests

vars == <<ui, sess, modalApiUrl, alertMsg, route, analytics>>

\* The invocations of handleSubmit that may overlap.
Sessions == {1, 2}

\* A stream holds at most MaxLines lines.
MaxLines == 2

\* The transport delivers 1..MaxChunk bytes per read, or all that is left.
MaxChunk == 3

\* With overlapping sessions it delivers ConcChunk bytes, or all that is left.
ConcChunk == 16

-----------------------------------------------------------------------------
(* Sequences *)

Min(a, b) == IF a <= b THEN a ELSE b

\* The element of a singleton.  The({F(v) : v \in {e}}) is F(e) with e
\* evaluated once.
The(S) == CHOOSE x \in S : TRUE

Last(s) == s[Len(s)]

Front(s) == SubSeq(s, 1, Len(s) - 1)

Drop(s, n) == SubSeq(s, n + 1, Len(s))

IsPrefix(p, s) == Len(p) <= Len(s) /\ SubSeq(s, 1, Len(p)) = p

RECURSIVE Flatten(_)
Flatten(ss) == IF ss = <<>> THEN <<>> ELSE Head(ss) \o Flatten(Tail(ss))

RECURSIVE JoinWith(_, _)
JoinWith(ss, sep) ==
  IF ss = <<>> THEN <<>>
  ELSE IF Len(ss) = 1 THEN Head(ss)
  ELSE Head(ss) \o sep \o JoinWith(Tail(ss), sep)

\* String.prototype.substring(0, n)
substring(s, n) == SubSeq(s, 1, Min(n, Len(s)))

\* String.prototype.includes, for a word that is one atom
includes(s, word) == \E i \in 1..Len(s) : s[i] = word

\* String.prototype.startsWith
startsWith(s, p) == IsPrefix(p, s)

\* String.prototype.split(sep): the pieces between the separators, the last
\* piece (possibly empty) included.
RECURSIVE split(_, _)
split(text, sep) ==
  IF \A i \in 1..Len(text) : text[i] # sep THEN <<text>>
  ELSE LET i == CHOOSE i \in 1..Len(text) :
                  text[i] = sep /\ \A j \in 1..(i - 1) : text[j] # sep
       IN  <<SubSeq(text, 1, i - 1)>> \o split(Drop(text, i), sep)

LF == "\n"

WhiteSpace == {" ", "\r", "\t", LF}

RECURSIVE trimStart(_)
trimStart(s) ==
  IF s # <<>> /\ Head(s) \in WhiteSpace THEN trimStart(Tail(s)) ELSE s

RECURSIVE trimEnd(_)
trimEnd(s) ==
  IF s # <<>> /\ Last(s) \in WhiteSpace THEN trimEnd(Front(s)) ELSE s

\* String.prototype.trim
trim(s) == trimEnd(trimStart(s))

-----------------------------------------------------------------------------
(* TextDecoder: UTF-8, decode(value, {stream: true}) *)

EAcute == "U+00E9"

Replacement == "U+FFFD"

LeadByte == "C3"

ContByte == "A9"

Skip == "(none)"

\* The bytes of a text (what the server writes).
utf8(text) ==
  LET twice == [j \in 1..(2 * Len(text)) |->
                  LET c == text[(j + 1) \div 2] IN
                  IF j % 2 = 1 THEN (IF c = EAcute THEN LeadByte ELSE c)
                  ELSE (IF c = EAcute THEN ContByte ELSE Skip)]
  IN  SelectSeq(twice, LAMBDA b : b # Skip)

\* One call of decoder.decode(bytes, {stream: true}), the decoder holding the
\* bytes pending from the calls before: a lead byte and its continuation
\* byte decode to U+00E9; a lead byte that is the last byte seen is held back;
\* a lead byte followed by anything else, and a continuation byte that follows
\* no lead byte, decode to U+FFFD.
decodeFrom(pending, bytes) ==
  LET all == pending \o bytes
      n == Len(all)
      each == [i \in 1..n |->
                 IF all[i] = LeadByte
                 THEN (IF i = n THEN Skip
                       ELSE IF all[i + 1] = ContByte THEN EAcute ELSE Replacement)
                 ELSE IF all[i] = ContByte
                 THEN (IF i > 1 /\ all[i - 1] = LeadByte THEN Skip ELSE Replacement)
                 ELSE all[i]]
  IN  [text |-> SelectSeq(each, LAMBDA c : c # Skip),
       pending |-> IF n > 0 /\ all[n] = LeadByte THEN <<LeadByte>> ELSE <<>>]

\* decoder.decode(value) without the stream option: the incomplete sequence at
\* the end of the chunk is flushed as U+FFFD and forgotten.
decodeChunkAlone(pending, bytes) ==
  LET r == decodeFrom(<<>>, bytes)
  IN  [text |-> IF r.pending = <<>> THEN r.text ELSE Append(r.text, Replacement),
       pending |-> <<>>]

decode(pending, bytes) == decodeFrom(pending, bytes)

-----------------------------------------------------------------------------
(* JavaScript values *)

Undefined == [k |-> "undefined", v |-> <<>>]

Null == [k |-> "null", v |-> <<>>]

Str(s) == [k |-> "string", v |-> s]

\* A number, held as the text of its digits.
Num(digits) == [k |-> "number", v |-> digits]

Bool(b) == [k |-> "boolean", v |-> IF b THEN <<"true">> ELSE <<"false">>]

Arr(xs) == [k |-> "array", v |-> xs]

\* An object is the sequence of its properties, in insertion order.
Obj(props) == [k |-> "object", v |-> props]

Prop(key, val) == [key |-> key, val |-> val]

\* o.key (of a value that is neither null nor undefined)
Get(o, key) ==
  IF o.k = "object" /\ \E i \in 1..Len(o.v) : o.v[i].key = key
  THEN o.v[CHOOSE i \in 1..Len(o.v) : o.v[i].key = key].val
  ELSE Undefined

\* ToBoolean
Truthy(x) ==
  CASE x.k \in {"undefined", "null"} -> FALSE
    [] x.k = "string" -> x.v # <<>>
    [] x.k = "number" -> x.v # <<"0">>
    [] x.k = "boolean" -> x.v = <<"true">>
    [] OTHER -> TRUE

\* a || b
OrElse(a, b) == IF Truthy(a) THEN a ELSE b

\* String(x), as `${x}` and string + x apply it
RECURSIVE toText(_)
toText(x) ==
  CASE x.k \in {"string", "number", "boolean"} -> x.v
    [] x.k = "undefined" -> <<"undefined">>
    [] x.k = "null" -> <<"null">>
    [] x.k = "array" ->
         JoinWith([i \in 1..Len(x.v) |->
                     IF x.v[i].k \in {"undefined", "null"} THEN <<>>
                     ELSE toText(x.v[i])], <<",">>)
    [] OTHER -> <<"[object Object]">>

\* The key of a property as JSON.stringify writes it: "key":
KeyAtom(key) ==
  CASE key = "type" -> "\"type\":"
    [] key = "content" -> "\"content\":"
    [] key = "data" -> "\"data\":"
    [] key = "name" -> "\"name\":"
    [] key = "input" -> "\"input\":"
    [] key = "output" -> "\"output\":"
    [] key = "query" -> "\"query\":"
    [] key = "path" -> "\"path\":"
    [] key = "symbol" -> "\"symbol\":"
    [] key = "logData" -> "\"logData\":"
    [] key = "error" -> "\"error\":"
    [] OTHER -> "\"?\":"

Quote == "\""

\* The text JSON.stringify writes for a value that is not undefined.
\* Strings hold no character that needs an escape.
RECURSIVE stringifyText(_)
stringifyText(x) ==
  CASE x.k = "string" -> <<Quote>> \o x.v \o <<Quote>>
    [] x.k \in {"number", "boolean"} -> x.v
    [] x.k = "array" ->
         <<"[">>
         \o JoinWith([i \in 1..Len(x.v) |->
                        IF x.v[i].k = "undefined" THEN <<"null">>
                        ELSE stringifyText(x.v[i])], <<",">>)
         \o <<"]">>
    [] x.k = "object" ->
         LET shown == SelectSeq(x.v, LAMBDA p : p.val.k # "undefined")
         IN  <<"{">>
             \o JoinWith([i \in 1..Len(shown) |->
                            <<KeyAtom(shown[i].key)>> \o stringifyText(shown[i].val)],
                         <<",">>)
             \o <<"}">>
    [] OTHER -> <<"null">>

\* JSON.stringify(x): undefined for undefined, a string otherwise.
JSONstringify(x) == IF x.k = "undefined" THEN Undefined ELSE Str(stringifyText(x))

-----------------------------------------------------------------------------
(* The values the stream and the enrichment service carry *)

\* {"type": type, "content": content, "data": data}; an undefined property is
\* not written.
Event(type, content, data) ==
  Obj(<<Prop("type", type), Prop("content", content), Prop("data", data)>>)

\* {"name":"SearchTool","input":{"query":"q"}}
RecSearch ==
  Obj(<<Prop("name", Str(<<"Search", "Tool">>)),
        Prop("input", Obj(<<Prop("query", Str(<<"q">>))>>))>>)

\* {"output":"ok"}
RecOutput == Obj(<<Prop("output", Str(<<"o", "k">>))>>)

EvContentA == Event(Str(<<"content">>), Str(<<"a">>), Undefined)

EvContentE == Event(Str(<<"content">>), Str(<<EAcute>>), Undefined)

EvComplete == Event(Str(<<"complete">>), Str(<<"H">>), Undefined)

EvError == Event(Str(<<"error">>), Str(<<"boom">>), Undefined)

EvSimilar == Event(Str(<<"similar_files">>), Arr(<<Str(<<"f.ts">>)>>), Undefined)

EvToolStart == Event(Str(<<"on_tool_start">>), Undefined, RecSearch)

EvToolEnd == Event(Str(<<"on_tool_end">>), Undefined, RecOutput)

\* a tool event that carries no data
EvToolBare == Event(Str(<<"on_tool_start">>), Undefined, Undefined)

\* an event type the dispatcher does not know
EvPing == Event(Str(<<"ping">>), Str(<<"a">>), Undefined)

\* an event that has no type: {"content":"a"}
EvNoType == Obj(<<Prop("content", Str(<<"a">>))>>)

\* A text of n characters.
Xs(n) == [i \in 1..n |-> "x"]

\* What the name, the input and the output of a record may hold (Undefined:
\* the record has no such property). The texts are chosen so that what the
\* route cuts is one character shorter than the cut, as long, and one longer.
RecNames ==
  {Undefined, Str(<<>>), Num(<<"5">>),
   Str(<<"Search", "Tool">>), Str(<<"RipGrep", "Tool">>), Str(<<"ViewFile", "Tool">>),
   Str(<<"ListDirectory", "Tool">>), Str(<<"SemanticSearch", "Tool">>),
   Str(<<"RevealSymbol", "Tool">>), Str(<<"Edit", "Tool">>), Str(<<"Search">>),
   Str(<<"Search", "Tool", "Tool">>)}

RecInputs ==
  {Undefined, Num(<<"0">>), Obj(<<>>), Str(<<"r", "a", "w">>),
   Obj(<<Prop("query", Str(<<"q">>))>>), Obj(<<Prop("path", Str(<<"p">>))>>),
   Obj(<<Prop("symbol", Str(<<"s">>))>>), Obj(<<Prop("query", Str(<<>>))>>),
   Str(Xs(47)), Str(Xs(48)), Str(Xs(49))}

RecOutputs ==
  {Undefined, Num(<<"0">>), Str(<<"o", "k">>), Obj(<<Prop("content", Str(<<"a">>))>>),
   Str(Xs(49)), Str(Xs(50)), Str(Xs(51)),
   Arr(<<Str(Xs(45))>>), Arr(<<Str(Xs(46))>>), Arr(<<Str(Xs(47))>>)}

\* The records the route may be asked to summarize.
RouteRecords ==
  {Obj(<<Prop("name", n), Prop("input", i), Prop("output", o)>>) :
     n \in RecNames, i \in RecInputs, o \in RecOutputs}

\* JSON values that are no records.
RouteScalars ==
  {Null, Num(<<"5">>), Bool(TRUE), Arr(<<>>), Arr(<<Num(<<"5">>)>>),
   Str(Xs(47)), Str(Xs(48)), Str(Xs(49))}

\* The JSON values that occur as texts: the frames' payloads and what the
\* route is asked to summarize.
JsonUniverse ==
  {EvContentA, EvContentE, EvComplete, EvError, EvSimilar, EvToolStart,
   EvToolEnd, EvToolBare, EvPing, EvNoType, Null, RecSearch, RecOutput}
  \cup RouteRecords \cup RouteScalars

JsonTexts == {<<stringifyText(x), x>> : x \in JsonUniverse}

\* The value of each JSON text.
JsonTable ==
  [t \in {p[1] : p \in JsonTexts} |-> (CHOOSE p \in JsonTexts : p[1] = t)[2]]

\* JSON.parse(text): the value whose JSON text this is (white space around it
\* is skipped); ok = FALSE stands for the SyntaxError it throws.
JSONparseTrimmed(t) ==
  IF t \in DOMAIN JsonTable THEN [ok |-> TRUE, value |-> JsonTable[t]]
  ELSE [ok |-> FALSE, value |-> Undefined]

JSONparse(text) == The({JSONparseTrimmed(t) : t \in {trim(text)}})

-----------------------------------------------------------------------------
(* route.ts: the log cleaning route *)

CutShort == 50

CutRaw == 100

Ellipsis == "..."

ShortenInclusive(s, n) == substring(s, n) \o (IF Len(s) >= n THEN <<Ellipsis>> ELSE <<>>)

\* s.substring(0, n) + (s.length > n ? '...' : '')
Shorten(s, n) == substring(s, n) \o (IF Len(s) > n THEN <<Ellipsis>> ELSE <<>>)

\* `${first || second}`
TextOfEither(first, second) == IF Truthy(first) THEN toText(first) ELSE toText(second)

\* `${x.substring(0, n)}${x.length > n ? '...' : ''}` of the JSON text of x
ShortJson(x, n) == The({Shorten(t, n) : t \in {stringifyText(x)}})

\* name.replace(/Tool$/, '')
StripTool(name) == IF name # <<>> /\ Last(name) = "Tool" THEN Front(name) ELSE name

\* Lines 33-59: data.name and data.input are truthy, name is a string.
cleanToolStart(toolName, input) ==
  IF toolName \in {<<"Search">>, <<"RipGrep">>}
  THEN Str(<<"Searching for \"">> \o TextOfEither(Get(input, "query"), input) \o <<Quote>>)
  ELSE IF toolName = <<"ViewFile">>
  THEN Str(<<"Reading file: ">> \o TextOfEither(Get(input, "path"), input))
  ELSE IF toolName = <<"ListDirectory">>
  THEN Str(<<"Listing directory: ">> \o TextOfEither(Get(input, "path"), input))
  ELSE IF toolName = <<"SemanticSearch">>
  THEN Str(<<"Performing semantic search for: \"">>
           \o TextOfEither(Get(input, "query"), input) \o <<Quote>>)
  ELSE IF toolName = <<"RevealSymbol">>
  THEN Str(<<"Analyzing symbol: ">> \o TextOfEither(Get(input, "symbol"), input))
  ELSE Str(<<"Using ">> \o toolName \o <<" tool with input: ">> \o ShortJson(input, CutShort))

\* Lines 32-71 for the parsed data; raw is what the catch of line 72 returns.
cleanParsed(data, name, input, output, raw) ==
  IF data.k \in {"null", "undefined"} THEN raw         \* TypeError, caught
  ELSE IF Truthy(name) /\ Truthy(input)
  THEN IF name.k # "string" THEN raw                   \* TypeError, caught
       ELSE cleanToolStart(StripTool(name.v), input)
  ELSE IF Truthy(output)
  THEN IF output.k = "string"
       THEN Str(<<"Completed with result: ">> \o Shorten(output.v, CutShort))
       ELSE Str(<<"Completed with result: ">> \o ShortJson(output, CutShort))
  ELSE Str(<<"Processing: ">> \o ShortJson(data, CutShort))

\* What stands for a TypeError that leaves the function.
Thrown == [k |-> "throw", v |-> <<"TypeError">>]

\* Line 74, the catch block: substring is a method of strings only.
cleanRaw(logData) ==
  IF logData.k = "string" THEN Str(Shorten(logData.v, CutRaw)) ELSE Thrown

\* cleanLog(logData); JSON.parse converts what is no string to its text.
cleanLog(logData) ==
  The({IF ~p.ok THEN cleanRaw(logData)
       ELSE The({cleanParsed(p.value, d[1], d[2], d[3], cleanRaw(logData)) :
                   d \in {<<Get(p.value, "name"), Get(p.value, "input"),
                            Get(p.value, "output")>>}}) :
         p \in {JSONparse(toText(logData))}})

ServerError ==
  [status |-> 500, body |-> Obj(<<Prop("error", Str(<<"Failed to process log data">>))>>)]

\* POST(req), req.json() being body (Undefined: the request body is no JSON,
\* req.json() rejects): the response's status and JSON body
POST(body) ==
  IF body.k \in {"undefined", "null"} THEN ServerError
  ELSE IF ~Truthy(Get(body, "logData"))
  THEN [status |-> 400,
        body |-> Obj(<<Prop("error", Str(<<"Missing logData parameter">>))>>)]
  ELSE The({IF cleanedLog.k = "throw" THEN ServerError
            ELSE [status |-> 200, body |-> Obj(<<Prop("content", cleanedLog)>>)] :
              cleanedLog \in {cleanLog(Get(body, "logData"))}})

\* No call of the route module on its own has been made.
NoCall == [fn |-> "none", arg |-> Undefined, status |-> 0, value |-> Undefined]

-----------------------------------------------------------------------------
(* cleanLogWithGPT4Mini *)

\* The URL of the request (line 13).
CleanLogUrl == <<"/api/clean-log">>

\* What becomes of the request to /api/clean-log:
\*   network      fetch rejects
\*   non2xx       a response that is not ok, whatever the route would answer
\*   malformed    an ok response whose body is not JSON: response.json() rejects
\*   contentless  an ok response whose JSON body has no content
\*   served       the route's own response
EnrichOutcomes == {"network", "non2xx", "malformed", "contentless", "served"}

\* response.ok
ResponseOk(status) == status >= 200 /\ status <= 299

\* The request failed: fetch rejected, the status is not 2xx, or the body is
\* not the JSON of a record with a content.
EnrichFailed(logData, outcome) ==
  IF outcome = "served" THEN ~ResponseOk(POST(Obj(<<Prop("logData", logData)>>)).status)
  ELSE TRUE

\* The heuristic of the route applied in the browser.
FallbackHeuristic(logData) == IF logData.k = "string" THEN cleanLog(logData) ELSE logData

\* What the catch block returns: its argument.
Fallback(logData) == logData

\* The value the promise of cleanLogWithGPT4Mini(logData) resolves with; the
\* function's try block holds every statement, so the promise never rejects.
cleanLogWithGPT4Mini(logData, outcome) ==
  CASE outcome \in {"network", "non2xx", "malformed"} -> Fallback(logData)
    [] outcome = "contentless" -> OrElse(Get(Obj(<<>>), "content"), logData)
    [] OTHER ->
         The({IF ~ResponseOk(response.status) THEN Fallback(logData)
              ELSE OrElse(Get(response.body, "content"), logData) :
                response \in {POST(Obj(<<Prop("logData", logData)>>))}})

-----------------------------------------------------------------------------
(* The streams the research API may answer with *)

DataPrefix == <<"d", "a", "t", "a", ":", " ">>

\* line.slice(6)
PrefixLen == 6

Frame(ev) == DataPrefix \o stringifyText(ev)

LnContentA == Frame(EvContentA)

LnContentE == Frame(EvContentE)

LnComplete == Frame(EvComplete)

LnError == Frame(EvError)

LnSimilar == Frame(EvSimilar)

LnToolStart == Frame(EvToolStart)

LnToolEnd == Frame(EvToolEnd)

LnToolBare == Frame(EvToolBare)

LnPing == Frame(EvPing)

\* the prefix, then a payload that is not JSON
LnMalformed == DataPrefix \o <<"{">>

\* a complete frame with a tab where the prefix has its space
LnTab == <<"d", "a", "t", "a", ":", "\t">> \o stringifyText(EvComplete)

\* a frame indented by a space and ended by CR LF
LnIndented == <<" ">> \o Frame(EvContentA) \o <<"\r">>

\* the prefix, then the JSON value null
LnNull == DataPrefix \o <<"null">>

LnEmpty == <<>>

LnNoType == Frame(EvNoType)

\* the prefix, then JSON values that are no records: 5, [], true
LnNumber == DataPrefix \o stringifyText(Num(<<"5">>))

LnArray == DataPrefix \o stringifyText(Arr(<<>>))

LnTrue == DataPrefix \o stringifyText(Bool(TRUE))

LineKinds ==
  <<LnContentA, LnContentE, LnComplete, LnError, LnSimilar, LnToolStart, LnToolEnd,
    LnToolBare, LnPing, LnMalformed, LnTab, LnIndented, LnNull, LnEmpty>>

\* The bytes of the lines ls, each ended by LF, the last one only if terminated.
StreamOf(ls, terminated) ==
  utf8(Flatten([i \in 1..Len(ls) |->
                  ls[i] \o (IF i < Len(ls) \/ terminated THEN <<LF>> ELSE <<>>)]))

\* The sequences of at most n lines.
LinesUpTo(n) ==
  {[i \in DOMAIN f |-> LineKinds[f[i]]] :
     f \in UNION {[1..k -> 1..Len(LineKinds)] : k \in 0..n}}

\* The last lines of the streams that close without a final LF.
Tails == {LnComplete, LnContentE}

\* The streams of at most MaxLines lines: all lines ended, or closed after a
\* last line that is not.
Streams ==
  {StreamOf(ls, TRUE) : ls \in LinesUpTo(MaxLines)}
  \cup {StreamOf(Append(ls, tail), FALSE) : ls \in LinesUpTo(MaxLines - 1), tail \in Tails}

\* Lines the dispatcher has no branch for, and lines it has one for.
EdgeLineKinds ==
  <<LnPing, LnNoType, LnNull, LnNumber, LnArray, LnTrue, LnContentA, LnToolStart,
    LnComplete>>

EdgeLinesUpTo(n) ==
  {[i \in DOMAIN f |-> EdgeLineKinds[f[i]]] :
     f \in UNION {[1..k -> 1..Len(EdgeLineKinds)] : k \in 0..n}}

\* The frames a stream may end with when it closes without a final LF.
EdgeTails == {LnComplete, LnError, LnContentA}

\* The streams of at most MaxLines such lines: all lines ended, or closed
\* after a last frame that is not.
EdgeStreams ==
  {StreamOf(ls, TRUE) : ls \in EdgeLinesUpTo(MaxLines)}
  \cup {StreamOf(Append(ls, tail), FALSE) :
          ls \in EdgeLinesUpTo(MaxLines - 1), tail \in EdgeTails}

\* The streams of the overlapping sessions.
ConcStreams ==
  {StreamOf(<<LnToolStart>>, TRUE), StreamOf(<<LnContentA, LnComplete>>, TRUE)}

-----------------------------------------------------------------------------
(* RepoChatDashboard: state *)

\* useState's initial values (lines 36-42)
InitialUi ==
  [isLoading |-> FALSE, researchResult |-> Str(<<>>), logs |-> <<>>,
   similarFiles |-> Arr(<<>>), apiError |-> Null]

\* An invocation of handleSubmit that has not been made.  pc is the await it
\* is suspended at; stream, pos: the response body and the bytes read of it;
\* pending: the decoder's held bytes; rest: the lines of the current chunk not
\* yet looked at; logData: the argument of the pending summarizer call.
\* History: calls (the requests issued, by their URL), order (the rank of the
\* submission), emitted (the lines taken from
\* the chunks), dispatched (the frames decoded and dispatched, with their
\* lines), summaries (the summarizer calls that returned: argument, whether
\* the request failed, value), cutMidChar (a chunk
\* ended inside a character), ended (how the invocation returned).
NotStarted ==
  [pc |-> "idle", repoUrl |-> <<>>, question |-> <<>>, calls |-> <<>>,
   stream |-> <<>>, pos |-> 0, pending |-> <<>>,
   partialLine |-> <<>>, rest |-> <<>>, logData |-> Undefined,
   order |-> 0, emitted |-> <<>>, dispatched |-> <<>>, summaries |-> <<>>,
   cutMidChar |-> FALSE, ended |-> "no"]

\* The values of the repository field and of the question field.
RepoInputs ==
  {<<>>, <<"owner/repo">>, <<"https://", "github.com", "/", "owner/repo">>,
   <<"github.com", "/", "owner/repo">>}

Questions == {<<>>, <<"q">>}

EnvValues == {<<>>, <<"modal.run">>, <<"https://", "modal.run">>}

\* new URL(x) returns (does not throw)
IsAnyText(x) == x # <<>>

\* new URL(x) does not throw
IsUrl(x) == x # <<>> /\ Head(x) \in {"https://", "http://"}

\* parseRepoUrl(input); threw: new URL(input) threw a TypeError
parseRepoUrl(input) ==
  IF includes(input, "github.com")
  THEN IF ~IsUrl(input)
       THEN [threw |-> TRUE, value |-> <<"Failed to construct 'URL': Invalid URL">>]
       ELSE [threw |-> FALSE, value |-> <<Last(input)>>]
  ELSE [threw |-> FALSE, value |-> input]

ConnectHint ==
  Str(<<"Error: Could not connect to the research API. Please check your connection and the NEXT_PUBLIC_MODAL_API_URL environment variable. See the README for configuration instructions.">>)

\* The local variables of a returned invocation are gone.
Returned(se, how) ==
  [se EXCEPT !.pc = "done", !.ended = how, !.repoUrl = <<>>, !.question = <<>>,
             !.pos = 0,
             !.pending = <<>>, !.partialLine = <<>>, !.rest = <<>>,
             !.logData = Undefined]

CatchAppendsError(m, message) ==
  [ui |-> [m.ui EXCEPT
             !.researchResult = Str(toText(@) \o <<"Error: ">> \o message),
             !.apiError = Str(message),
             !.logs = IF includes(message, "Failed to fetch")
                         \/ includes(message, "NetworkError")
                      THEN Append(@, ConnectHint) ELSE @,
             !.isLoading = FALSE],
   se |-> Returned(m.se, "caught")]

\* The outer catch and finally of handleSubmit (lines 168-180), message being
\* errorMessage (line 170).
Catch(m, message) ==
  [ui |-> [m.ui EXCEPT
             !.researchResult = Str(<<"Error: ">> \o message),
             !.apiError = Str(message),
             !.logs = IF includes(message, "Failed to fetch")
                         \/ includes(message, "NetworkError")
                      THEN Append(@, ConnectHint) ELSE @,
             !.isLoading = FALSE],
   se |-> Returned(m.se, "caught")]

FinallyKeepsLoading(m, how) == [ui |-> m.ui, se |-> Returned(m.se, how)]

\* A return from inside the read loop: the finally blocks run (lines 164-166,
\* 178-180).
Finally(m, how) ==
  [ui |-> [m.ui EXCEPT !.isLoading = FALSE], se |-> Returned(m.se, how)]

-----------------------------------------------------------------------------
(* handleSubmit: the dispatch of one decoded frame (lines 139-157) *)

IsType(eventData, word) == Get(eventData, "type") = Str(<<word>>)

CtlFallThrough == "next"

CtlOtherReturns == "return"

CtlToolNotAwaited == "next"

\* the await of the tool branch (line 155)
CtlOfTool == "await"

\* no branch of the if chain is taken (line 157): the for loop goes on
CtlOfOther == "next"

SimilarFilesMerged(prev, content) == Arr(prev.v \o content.v)

\* line 140: setSimilarFiles(eventData.content)
SimilarFiles(prev, content) == content

ContentAnswerReplaced(prev, content) == content

\* line 143: prev + eventData.content
ContentAnswer(prev, content) == Str(toText(prev) \o toText(content))

ErrorAnswerBare(content) == Str(toText(content))

\* line 145: `Error: ${eventData.content}`
ErrorAnswer(content) == Str(<<"Error: ">> \o toText(content))

\* the return of the complete branch (line 153)
CtlOfComplete == "return"

CompleteAnswerAppended(prev, content) == Str(toText(prev) \o toText(content))

\* setResearchResult(eventData.content) (line 150)
CompleteAnswer(prev, content) == content

LogPrepended(prev, entry) == <<entry>> \o prev

\* setLogs(prev => [...prev, entry])
AppendLog(prev, entry) == Append(prev, entry)

\* ctl: "next" (the for loop goes on), "return", or "await" (the summarizer is
\* called and awaited).
Dispatch(u, eventData) ==
  LET content == Get(eventData, "content") IN
  IF IsType(eventData, "similar_files")
  THEN [ui |-> [u EXCEPT !.similarFiles = SimilarFiles(@, content),
                         !.logs = AppendLog(@, Str(<<"Starting agent run">>))],
        ctl |-> "next"]
  ELSE IF IsType(eventData, "content")
  THEN [ui |-> [u EXCEPT !.researchResult = ContentAnswer(@, content)],
        ctl |-> "next"]
  ELSE IF IsType(eventData, "error")
  THEN [ui |-> [u EXCEPT !.researchResult = ErrorAnswer(content),
                         !.apiError = content,
                         !.isLoading = FALSE],
        ctl |-> "return"]
  ELSE IF IsType(eventData, "complete")
  THEN [ui |-> [u EXCEPT !.researchResult = CompleteAnswer(@, content),
                         !.isLoading = FALSE,
                         !.logs = AppendLog(@, Str(<<"Analysis complete">>))],
        ctl |-> CtlOfComplete]
  ELSE IF IsType(eventData, "on_tool_start") \/ IsType(eventData, "on_tool_end")
  THEN [ui |-> u, ctl |-> CtlOfTool]
  ELSE [ui |-> u, ctl |-> CtlOfOther]

PrefixNoSpace(line) == startsWith(line, <<"d", "a", "t", "a", ":">>)

\* line.startsWith('data: ') (line 136)
HasDataPrefix(line) == startsWith(line, DataPrefix)

ParseThrows(line) == "throw"

\* What the catch of line 158 does with a payload JSON.parse rejects: it logs
\* and the for loop goes on.
OnMalformed(line) == "next"

TypeErrorEscapes(line) == "throw"

\* The same catch takes the TypeError that eventData.type throws when the
\* payload is the JSON value null.
OnTypeError(line) == OnMalformed(line)

\* A line that is no frame, or a frame that is dropped: nothing changes.
Ignored(u, ctl) == [ui |-> u, ctl |-> ctl, frames |-> <<>>, logData |-> Undefined]

\* Lines 138-160 for the value p that JSON.parse made of the payload.
HandleParsed(u, raw, line, p) ==
  IF ~p.ok THEN Ignored(u, OnMalformed(line))
  ELSE IF p.value.k \in {"null", "undefined"}       \* TypeError, caught at line 158
  THEN Ignored(u, OnTypeError(line))
  ELSE The({[ui |-> d.ui, ctl |-> d.ctl,
             frames |-> <<[line |-> raw, ev |-> p.value]>>,
             logData |-> JSONstringify(Get(p.value, "data"))] :
              d \in {Dispatch(u, p.value)}})

\* Lines 135-161 for one line of the chunk: the state after it, what the loop
\* does next (ctl), the frame dispatched if any, and the summarizer's argument.
HandleLine(u, raw) ==
  The({IF ~HasDataPrefix(line) THEN Ignored(u, "next")
       ELSE The({HandleParsed(u, raw, line, p) :
                   p \in {JSONparse(Drop(line, PrefixLen))}}) :
         line \in {trim(raw)}})

\* The machine after the line raw was taken and handled with result h.
Taken(m, raw, h) ==
  [ui |-> h.ui,
   se |-> [m.se EXCEPT !.emitted = Append(@, raw), !.dispatched = @ \o h.frames]]

\* The for loop over the lines of a chunk (lines 134-162), from the line it is
\* at, until it awaits the summarizer, returns, or runs out of lines and the
\* while loop awaits the next read.
RECURSIVE ProcessLines(_, _)
ProcessLines(m, lines) ==
  IF lines = <<>> THEN [m EXCEPT !.se.pc = "reading", !.se.rest = <<>>]
  ELSE The({IF h.ctl = "next" THEN ProcessLines(Taken(m, Head(lines), h), Tail(lines))
            ELSE IF h.ctl = "await"
            THEN [Taken(m, Head(lines), h) EXCEPT
                    !.se.pc = "summarizing", !.se.rest = Tail(lines),
                    !.se.logData = h.logData,
                    !.se.calls = Append(@, CleanLogUrl)]
            ELSE IF h.ctl = "return" THEN Finally(Taken(m, Head(lines), h), "event")
            ELSE Catch(Taken(m, Head(lines), h), <<"Unexpected token">>) :
              h \in {HandleLine(m.ui, Head(lines))}})

\* The pieces of a text split at LF: all but the last are lines.
Pieces(text, pending) ==
  The({[lines |-> Front(ps), partialLine |-> Last(ps), pending |-> pending] :
         ps \in {split(text, LF)}})

FeedNoCarry(partialLine, pending, bytes) ==
  The({Pieces(d.text, d.pending) : d \in {decode(pending, bytes)}})

\* Lines 129-132: the chunk's text after the kept partial line, split at LF;
\* the last piece is the new partial line.
Feed(partialLine, pending, bytes) ==
  The({Pieces(partialLine \o d.text, d.pending) : d \in {decode(pending, bytes)}})

-----------------------------------------------------------------------------
(* handleSubmit: one action per stretch of code between two awaits *)

Machine(s) == [ui |-> ui, se |-> sess[s]]

\* ui and sess[s] become those of m.
Becomes(s, m) ==
  \E r \in {m} :
    /\ ui' = r.ui
    /\ sess' = [sess EXCEPT ![s] = r.se]
    /\ UNCHANGED <<modalApiUrl, alertMsg, route, analytics>>

ValidateRepoOnly(repoUrl, question) ==
  IF repoUrl = <<>> THEN <<"Please enter a repository URL">> ELSE <<>>

\* Lines 57-64: the text of the alert, <<>> when both fields are filled.
Validate(repoUrl, question) ==
  IF repoUrl = <<>> THEN <<"Please enter a repository URL">>
  ELSE IF question = <<>> THEN <<"Please enter a question about the codebase">>
  ELSE <<>>

\* Lines 56-73, on a click or on Enter: the checks of the two fields, the
\* reset, the first log line, and the first timer is awaited.
Submit(s) ==
  /\ alertMsg = <<>>
  /\ sess[s].pc = "idle"
  /\ \E repoUrl \in RepoInputs, question \in Questions :
       IF Validate(repoUrl, question) # <<>>
       THEN /\ alertMsg' = Validate(repoUrl, question)
            /\ UNCHANGED <<ui, sess, modalApiUrl, route, analytics>>
       ELSE Becomes(s,
              [ui |-> [isLoading |-> TRUE, researchResult |-> Str(<<>>),
                       logs |-> <<Str(<<"Fetching codebase">>)>>,
                       similarFiles |-> Arr(<<>>), apiError |-> Null],
               se |-> [NotStarted EXCEPT
                         !.pc = "wait1", !.repoUrl = repoUrl, !.question = question,
                         !.order = 1 + Cardinality({t \in Sessions : sess[t].pc # "idle"})]])

\* The user closes the alert; while it is open no script runs.
Dismiss ==
  /\ alertMsg # <<>>
  /\ alertMsg' = <<>>
  /\ UNCHANGED <<ui, sess, modalApiUrl, route, analytics>>

\* Lines 75-76: the first timer fired.
Timer1(s) ==
  /\ alertMsg = <<>>
  /\ sess[s].pc = "wait1"
  /\ Becomes(s, [ui |-> [ui EXCEPT !.logs = AppendLog(@, Str(<<"Initializing research tools for agent">>))],
                 se |-> [sess[s] EXCEPT !.pc = "wait2"]])

\* Lines 78-110: the second timer fired; up to the call of fetch.
Timer2(s) ==
  /\ alertMsg = <<>>
  /\ sess[s].pc = "wait2"
  /\ \E parsed \in {parseRepoUrl(sess[s].repoUrl)},
        m1 \in {[ui |-> [ui EXCEPT !.logs = AppendLog(@, Str(<<"Looking through files">>))],
                 se |-> sess[s]]} :
         Becomes(s,
           IF parsed.threw THEN Catch(Machine(s), parsed.value)
           ELSE IF sess[s].question = <<>> THEN Finally(Machine(s), "skipped")   \* line 81
           ELSE IF modalApiUrl = <<>>
           THEN Catch(m1, <<"NEXT_PUBLIC_MODAL_API_URL environment variable is not set">>)
           ELSE IF ~IsUrl(modalApiUrl)
           THEN Catch(m1, <<"NEXT_PUBLIC_MODAL_API_URL is not a valid URL">>)
           ELSE [m1 EXCEPT !.se.pc = "fetching", !.se.repoUrl = <<>>,
                           !.se.question = <<>>,
                           !.se.calls = Append(@, modalApiUrl)])

\* error.message of what lines 101-122 throw: fetch rejected, the response is
\* not ok, the response has no body.
FetchErrors ==
  {<<"Failed to fetch">>,
   <<"Failed to fetch", " research results: ", "500", " ", "Internal Server Error">>,
   <<"Failed to get response reader">>}

FetchFails(s) ==
  /\ alertMsg = <<>>
  /\ sess[s].pc = "fetching"
  /\ \E message \in FetchErrors : Becomes(s, Catch(Machine(s), message))

\* Lines 101-123: an ok response; its body will deliver stream.
FetchOk(s, streams) ==
  /\ alertMsg = <<>>
  /\ sess[s].pc = "fetching"
  /\ \E stream \in streams :
       Becomes(s, [ui |-> ui, se |-> [sess[s] EXCEPT !.pc = "reading", !.stream = stream]])

\* The sizes of the chunk the next read may deliver.
ChunkSizes(s, sizes) ==
  LET left == Len(sess[s].stream) - sess[s].pos
  IN  {n \in sizes \cup {left} : 1 <= n /\ n <= left}

\* Lines 126-163: reader.read() delivered n bytes.
ReadChunk(s, sizes) ==
  /\ alertMsg = <<>>
  /\ sess[s].pc = "reading"
  /\ \E n \in ChunkSizes(s, sizes) :
       \E f \in {Feed(sess[s].partialLine, sess[s].pending,
                      SubSeq(sess[s].stream, sess[s].pos + 1, sess[s].pos + n))} :
         Becomes(s, ProcessLines(
                      [ui |-> ui,
                       se |-> [sess[s] EXCEPT
                                 !.pos = @ + n, !.pending = f.pending,
                                 !.partialLine = f.partialLine,
                                 !.cutMidChar = @ \/ f.pending # <<>>]],
                      f.lines))

ReadDoneFlushes(s) ==
  /\ alertMsg = <<>>
  /\ sess[s].pc = "reading"
  /\ sess[s].pos = Len(sess[s].stream)
  /\ \E m \in {ProcessLines(Machine(s),
                             IF sess[s].partialLine = <<>> THEN <<>>
                             ELSE <<sess[s].partialLine>>)} :
       Becomes(s, IF m.se.pc = "reading" THEN Finally(m, "closed") ELSE m)

ReadDoneCompletes(s) ==
  /\ alertMsg = <<>>
  /\ sess[s].pc = "reading"
  /\ sess[s].pos = Len(sess[s].stream)
  /\ Becomes(s, Finally([ui |-> [ui EXCEPT !.logs = AppendLog(@, Str(<<"Analysis complete">>))],
                          se |-> sess[s]], "closed"))

\* Lines 126-127: reader.read() reported the end of the stream.
ReadDone(s) ==
  /\ alertMsg = <<>>
  /\ sess[s].pc = "reading"
  /\ sess[s].pos = Len(sess[s].stream)
  /\ Becomes(s, Finally(Machine(s), "closed"))

\* What reader.read() may reject with: an Error with its message, or a value
\* that is no Error (the reason a stream was cancelled with).
ReadRejections ==
  {[isError |-> TRUE, message |-> <<"network error">>],
   [isError |-> TRUE, message |-> <<"NetworkError", " when attempting to fetch resource.">>],
   [isError |-> FALSE, message |-> <<"aborted">>]}

\* line 170: error instanceof Error ? error.message : the fixed text
errorMessage(error) ==
  IF error.isError THEN error.message
  ELSE <<"Failed to process request. Please try again.">>

\* errorMessage of a rejected reader.read().
ReadErrors == {errorMessage(error) : error \in ReadRejections}

\* Line 126: reader.read() rejected.
ReadFails(s) ==
  /\ alertMsg = <<>>
  /\ sess[s].pc = "reading"
  /\ \E message \in ReadErrors : Becomes(s, Catch(Machine(s), message))

\* Lines 155-157: the awaited summarizer call resolved; its value is appended
\* and the for loop goes on.
SummaryReturns(s) ==
  /\ alertMsg = <<>>
  /\ sess[s].pc = "summarizing"
  /\ \E outcome \in EnrichOutcomes :
       \E cleanedLog \in {cleanLogWithGPT4Mini(sess[s].logData, outcome)} :
         Becomes(s, ProcessLines(
                      [ui |-> [ui EXCEPT !.logs = AppendLog(@, cleanedLog)],
                       se |-> [sess[s] EXCEPT
                                 !.logData = Undefined,
                                 !.summaries = Append(@,
                                   [logData |-> sess[s].logData,
                                    failed |-> EnrichFailed(sess[s].logData, outcome),
                                    value |-> cleanedLog])]],
                      sess[s].rest))

-----------------------------------------------------------------------------
(* RepoAnalyticsDashboard: the analysis request *)

\* The requests one mounted component issues at most.
MaxRequests == 3

\* useState's initial values (lines 63-69) of the component as
\* RepoChatDashboard mounts it: its repoUrl state, "" at first, is the prop
\* (repo-chat-dashboard.tsx lines 35, 286).  History: issued (the repo_url
\* of each request, in the order of the requests), pending (the requests
\* that have not settled, by their rank in issued).
InitialAnalytics ==
  [prop |-> <<>>, repoUrl |-> <<>>, repoData |-> Null, error |-> Null,
   isLoading |-> FALSE, repoDataRetrieved |-> FALSE, issued |-> <<>>, pending |-> {}]

\* What the repository field of RepoChatDashboard may hold.
AnalyticsProps ==
  {<<>>, <<"owner/a">>, <<"owner/b">>, <<"https://", "github.com", "/", "owner/a">>}

\* parseRepoUrl of RepoAnalyticsDashboard (lines 81-127): the first two
\* parts of the path of a github.com URL; otherwise the input (these inputs
\* have no blank around them, no .git and no / at their end).
parseAnalyticsRepoUrl(input) ==
  IF input = <<>> THEN <<>>
  ELSE IF includes(input, "github.com") /\ IsUrl(input) THEN <<Last(input)>>
  ELSE input

\* The catch and finally of handleFetchRepo (lines 220-226).
AnalyticsCatch(a, message) ==
  [a EXCEPT !.error = Str(message), !.repoData = Null, !.isLoading = FALSE]

\* handleFetchRepo (lines 129-157) up to the await of fetch, called from a
\* render whose repoUrl state is repoUrl, with the environment value env.
\* No value of EnvValues contains /research/stream, so the URL is that of
\* new URL(env).origin, which throws when env is no URL.
handleFetchRepo(a, repoUrl, env) ==
  IF repoUrl = <<>>
  THEN [a EXCEPT !.error = Str(<<"Please enter a repository URL">>)]
  ELSE IF env = <<>>
  THEN AnalyticsCatch(a, <<"NEXT_PUBLIC_MODAL_API_URL environment variable is not set">>)
  ELSE IF ~IsUrl(env)
  THEN AnalyticsCatch(a, <<"Failed to construct 'URL': Invalid URL">>)
  ELSE [a EXCEPT !.isLoading = TRUE, !.error = Null,
                 !.issued = Append(@, parseAnalyticsRepoUrl(repoUrl)),
                 !.pending = @ \cup {Len(a.issued) + 1}]

\* The effect of lines 72-79, run after the render in which the prop is
\* initialRepoUrl: setRepoUrl takes effect with the next render, and
\* handleFetchRepo is the function of this render, whose repoUrl is the
\* state of this render.
PropEffect(a, initialRepoUrl, env) ==
  IF initialRepoUrl # <<>>
  THEN [handleFetchRepo(a, a.repoUrl, env) EXCEPT !.repoUrl = initialRepoUrl]
  ELSE a

\* RepoChatDashboard renders with another value of its repository field
\* (repo-chat-dashboard.tsx lines 224-229, 284-287).
PropChanges ==
  /\ Len(analytics.issued) < MaxRequests
  /\ \E initialRepoUrl \in AnalyticsProps \ {analytics.prop} :
       analytics' = PropEffect([analytics EXCEPT !.prop = initialRepoUrl],
                               initialRepoUrl, modalApiUrl)
  /\ UNCHANGED <<ui, sess, modalApiUrl, alertMsg, route>>

\* The Try Again button (line 276), shown with an error when nothing loads.
TryAgain ==
  /\ Len(analytics.issued) < MaxRequests
  /\ analytics.error # Null
  /\ ~analytics.isLoading
  /\ analytics' = handleFetchRepo(analytics, analytics.repoUrl, modalApiUrl)
  /\ UNCHANGED <<ui, sess, modalApiUrl, alertMsg, route>>

\* How a request may settle: a body with or without a description, a status
\* that is not ok, a body with an error property, a rejected fetch.
AnalyticsOutcomes == {"described", "bare", "status", "error", "rejected"}

\* Lines 159-219: the description shown for an ok response.
DescriptionOf(outcome) ==
  IF outcome = "described" THEN Str(<<"d">>) ELSE Str(<<"No description available">>)

\* Lines 159-226: the request of rank i settled; parsedRepoUrl is the
\* constant of the invocation that issued it.
AnalyticsResponds ==
  /\ \E i \in analytics.pending, outcome \in AnalyticsOutcomes :
       \E a \in {[analytics EXCEPT !.pending = @ \ {i}]} :
         analytics' =
           IF outcome \in {"described", "bare"}
           THEN [a EXCEPT !.repoData = Obj(<<Prop("name", Str(a.issued[i])),
                                             Prop("description", DescriptionOf(outcome))>>),
                          !.repoDataRetrieved = TRUE,
                          !.isLoading = FALSE]
           ELSE AnalyticsCatch(a, CASE outcome = "status" ->
                                         <<"HTTP error! status: ", "500", ". ">>
                                    [] outcome = "error" -> <<"analysis failed">>
                                    [] OTHER -> <<"Failed to fetch">>)
  /\ UNCHANGED <<ui, sess, modalApiUrl, alertMsg, route>>

-----------------------------------------------------------------------------
(* Specifications *)

Init ==
  /\ ui = InitialUi
  /\ sess = [s \in Sessions |-> NotStarted]
  /\ modalApiUrl \in EnvValues
  /\ alertMsg = <<>>
  /\ route = NoCall
  /\ analytics = InitialAnalytics

\* One session, any stream.
Next ==
  \/ Dismiss
  \/ \E s \in {1} :
       \/ Submit(s)
       \/ Timer1(s)
       \/ Timer2(s)
       \/ FetchFails(s)
       \/ FetchOk(s, Streams)
       \/ ReadChunk(s, 1..MaxChunk)
       \/ ReadDone(s)
       \/ ReadFails(s)
       \/ SummaryReturns(s)

Spec == Init /\ [][Next]_vars

\* Handlers of two sessions interleaved at their awaits.
NextConc ==
  \/ Dismiss
  \/ \E s \in Sessions :
       \/ Submit(s)
       \/ Timer1(s)
       \/ Timer2(s)
       \/ FetchFails(s)
       \/ FetchOk(s, ConcStreams)
       \/ ReadChunk(s, {ConcChunk})
       \/ ReadDone(s)
       \/ ReadFails(s)
       \/ SummaryReturns(s)

SpecConc == Init /\ [][NextConc]_vars

\* One session, streams of lines the dispatcher has no branch for and
\* streams that close after a frame without a final LF.
NextEdge ==
  \/ Dismiss
  \/ \E s \in {1} :
       \/ Submit(s)
       \/ Timer1(s)
       \/ Timer2(s)
       \/ FetchFails(s)
       \/ FetchOk(s, EdgeStreams)
       \/ ReadChunk(s, 1..MaxChunk)
       \/ ReadDone(s)
       \/ ReadFails(s)
       \/ SummaryReturns(s)

SpecEdge == Init /\ [][NextEdge]_vars

\* The same, where the timers fire (lines 73, 76), the fetch of the stream
\* settles and the transport goes on delivering until it closes or fails.
\* Nothing makes the summarizer's fetch (lines 13-19) settle: it has no
\* timeout and no abort signal.
SpecLive ==
  /\ Init
  /\ [][NextEdge]_vars
  /\ WF_vars(Timer1(1))
  /\ WF_vars(Timer2(1))
  /\ WF_vars(FetchFails(1) \/ FetchOk(1, EdgeStreams))
  /\ WF_vars(ReadChunk(1, 1..MaxChunk) \/ ReadDone(1) \/ ReadFails(1))

-----------------------------------------------------------------------------
(* The clean-log route module called on its own *)

\* Texts that are no JSON: the empty text, a blank, an opening brace, and
\* texts around the length the catch block cuts at.
RawTexts == {<<>>, <<" ">>, <<"{">>, Xs(99), Xs(100), Xs(101)}

\* The arguments of cleanLog: the JSON texts of the records and scalars, and
\* texts that are no JSON.
RouteTexts ==
  {Str(stringifyText(x)) : x \in RouteRecords \cup RouteScalars}
  \cup {Str(t) : t \in RawTexts}

\* The JSON bodies of the requests: a text as logData, something else as
\* logData, no logData, and bodies that are no records or no JSON at all.
RouteBodies ==
  {Obj(<<Prop("logData", x)>>) :
     x \in RouteTexts \cup {Null, Num(<<"5">>), Obj(<<>>), Arr(<<Num(<<"5">>)>>)}}
  \cup {Obj(<<>>), Arr(<<>>), Null, Undefined}

\* cleanLog(logData) is evaluated. The module keeps nothing from one call to
\* the next, so one call is looked at.
CallCleanLog ==
  /\ route = NoCall
  /\ \E logData \in RouteTexts :
       route' = [fn |-> "cleanLog", arg |-> logData, status |-> 0,
                 value |-> cleanLog(logData)]
  /\ UNCHANGED <<ui, sess, modalApiUrl, alertMsg, analytics>>

\* A request arrives at POST.
CallPOST ==
  /\ route = NoCall
  /\ \E body \in RouteBodies : \E response \in {POST(body)} :
       route' = [fn |-> "POST", arg |-> body, status |-> response.status,
                 value |-> response.body]
  /\ UNCHANGED <<ui, sess, modalApiUrl, alertMsg, analytics>>

NextRoute == CallCleanLog \/ CallPOST

SpecRoute == Init /\ [][NextRoute]_vars

\* The analytics component as RepoChatDashboard mounts it.
NextAnalytics == PropChanges \/ TryAgain \/ AnalyticsResponds

SpecAnalytics == Init /\ [][NextAnalytics]_vars

-----------------------------------------------------------------------------
(* What the claims speak of *)

IsTerminalEvent(ev) == IsType(ev, "error") \/ IsType(ev, "complete")

IsToolEvent(ev) == IsType(ev, "on_tool_start") \/ IsType(ev, "on_tool_end")

\* Session s is the only one that was ever started.
Alone(s) == \A t \in Sessions \ {s} : sess[t].pc = "idle"

\* Session s is under way and a later submission has reset the state.
Stale(s) ==
  /\ sess[s].pc \notin {"idle", "done"}
  /\ \E t \in Sessions : sess[t].order > sess[s].order

\* The stream of s has been opened, and s has not ended in the catch block.
Streaming(s) ==
  \/ sess[s].pc \in {"reading", "summarizing"}
  \/ sess[s].pc = "done" /\ sess[s].ended \in {"event", "closed"}

\* What one call of the line splitter makes of bytes fed as a single chunk.
OneChunk(bytes) == Feed(<<>>, <<>>, bytes)

SetupLogs ==
  <<Str(<<"Fetching codebase">>), Str(<<"Initializing research tools for agent">>),
    Str(<<"Looking through files">>)>>

NoEntry == [k |-> "none", v |-> <<>>]

\* The tool events among the first i frames dispatched.
ToolRank(se, i) == Cardinality({j \in 1..i : IsToolEvent(se.dispatched[j].ev)})

\* The log entry the i-th dispatched frame stands for: the value of its
\* summarizer call for a tool event (none while the call is pending), the
\* marker of similar_files, the completion entry.
EntryOf(se, i) ==
  IF IsType(se.dispatched[i].ev, "similar_files") THEN Str(<<"Starting agent run">>)
  ELSE IF IsType(se.dispatched[i].ev, "complete") THEN Str(<<"Analysis complete">>)
  ELSE IF IsToolEvent(se.dispatched[i].ev) /\ ToolRank(se, i) <= Len(se.summaries)
  THEN se.summaries[ToolRank(se, i)].value
  ELSE NoEntry

\* The entries of the frames dispatched, in the order of the frames.
FrameLogs(se) ==
  SelectSeq([i \in 1..Len(se.dispatched) |-> EntryOf(se, i)], LAMBDA e : e.k # "none")

\* The answer the frames dispatched amount to.
FrameAnswer(ds) ==
  IF ds # <<>> /\ IsType(Last(ds).ev, "complete") THEN Get(Last(ds).ev, "content")
  ELSE IF ds # <<>> /\ IsType(Last(ds).ev, "error")
  THEN Str(<<"Error: ">> \o toText(Get(Last(ds).ev, "content")))
  ELSE Str(Flatten([i \in 1..Len(ds) |->
                      IF IsType(ds[i].ev, "content") THEN toText(Get(ds[i].ev, "content"))
                      ELSE <<>>]))

\* A line whose trimmed text has the prefix and a payload that decodes to a record.
IsFrameLine(raw) ==
  \E line \in {trim(raw)} :
    /\ startsWith(line, DataPrefix)
    /\ \E p \in {JSONparse(Drop(line, PrefixLen))} : p.ok /\ p.value.k = "object"

\* error.message of the failures the outer catch of handleSubmit may see.
OuterErrors ==
  FetchErrors \cup ReadErrors
  \cup {<<"Failed to construct 'URL': Invalid URL">>,
        <<"NEXT_PUBLIC_MODAL_API_URL environment variable is not set">>,
        <<"NEXT_PUBLIC_MODAL_API_URL is not a valid URL">>}

-----------------------------------------------------------------------------
(* Claims *)

\* C1: once an error or complete event has been dispatched in a session, that
\* session hands no further line to the parser and dispatches no further
\* event (a terminal event is the last one dispatched), the invocation has
\* returned and never runs again, and as long as no other session runs the
\* answer, the log, the file list and the last error stay as they are.
C1_TerminalStopsSession ==
  [][\A s \in Sessions :
       /\ \A i \in 1..(Len(sess'[s].dispatched) - 1) :
            ~IsTerminalEvent(sess'[s].dispatched[i].ev)
       /\ (sess[s].dispatched # <<>> /\ IsTerminalEvent(Last(sess[s].dispatched).ev))
            => /\ sess[s].pc = "done"
               /\ sess'[s] = sess[s]
               /\ (\A t \in Sessions \ {s} : sess'[t] = sess[t]) => ui' = ui]_vars

\* A terminal event was dispatched while the stream still held a well-formed
\* frame behind it.
C1_Witness ==
  /\ sess[1].stream = StreamOf(<<LnError, LnContentA>>, TRUE)
  /\ sess[1].ended = "event"
  /\ Len(sess[1].dispatched) = 1
  /\ ui.researchResult = Str(<<"Error: ", "boom">>)

\* C2: however the bytes read so far were cut into chunks, the lines taken
\* from them are the lines one call makes of the same bytes fed as a single
\* chunk, in the same order, and the partial line kept is the same; once the
\* stream has closed, every line of the whole stream was taken exactly once.
C2_ChunkingInvariant ==
  \A s \in Sessions :
    /\ sess[s].pc = "reading" =>
         /\ sess[s].emitted = OneChunk(SubSeq(sess[s].stream, 1, sess[s].pos)).lines
         /\ sess[s].partialLine
              = OneChunk(SubSeq(sess[s].stream, 1, sess[s].pos)).partialLine
    /\ sess[s].pc = "summarizing" =>
         sess[s].emitted \o sess[s].rest
           = OneChunk(SubSeq(sess[s].stream, 1, sess[s].pos)).lines
    /\ sess[s].pc = "done" =>
         IsPrefix(sess[s].emitted, OneChunk(sess[s].stream).lines)
    /\ (sess[s].pc = "done" /\ sess[s].ended = "closed") =>
         sess[s].emitted = OneChunk(sess[s].stream).lines

\* A stream of two lines was read to its end in chunks one of which ended
\* inside a two-byte character.
C2_Witness ==
  /\ sess[1].ended = "closed"
  /\ sess[1].cutMidChar
  /\ Len(sess[1].emitted) = 2
  /\ ui.researchResult = Str(<<EAcute, "a">>)

\* C3 (as claimed): a session that a later submission has overtaken dispatches
\* no further event.
C3_StaleSessionDispatchesNothing ==
  [][\A s \in Sessions :
       Stale(s) => /\ sess'[s].dispatched = sess[s].dispatched
                   /\ (\A t \in Sessions \ {s} : sess'[t] = sess[t]) => ui' = ui]_vars

\* C4 (as claimed): when the summarizer call of an overtaken session returns,
\* its value is not appended to the progress log.
C4_LateSummaryNotAppended ==
  [][\A s \in Sessions :
       (Stale(s) /\ Len(sess'[s].summaries) > Len(sess[s].summaries))
         => ~IsPrefix(Append(ui.logs, Last(sess'[s].summaries).value), ui'.logs)]_vars

\* C5: in a session running alone, the progress log is the three setup
\* entries followed by the entries of the frames dispatched, in the order of
\* the frames; every tool event has one summarizer call, made with the JSON
\* text of its data, and its entry is there if and only if that call has
\* returned (the one call pending is that of the last frame dispatched).
C5_LogInArrivalOrder ==
  \A s \in Sessions :
    (Alone(s) /\ Streaming(s)) =>
      /\ ui.logs = SetupLogs \o FrameLogs(sess[s])
      /\ Len(sess[s].summaries)
           = ToolRank(sess[s], Len(sess[s].dispatched))
             - (IF sess[s].pc = "summarizing" THEN 1 ELSE 0)
      /\ sess[s].pc = "summarizing" => IsToolEvent(Last(sess[s].dispatched).ev)
      /\ \A i \in 1..Len(sess[s].dispatched) :
           (IsToolEvent(sess[s].dispatched[i].ev)
              /\ ToolRank(sess[s], i) <= Len(sess[s].summaries))
             => sess[s].summaries[ToolRank(sess[s], i)].logData
                  = JSONstringify(Get(sess[s].dispatched[i].ev, "data"))

\* Two tool events were summarized with different values and both entries
\* are in the log.
C5_Witness ==
  /\ sess[1].ended = "closed"
  /\ Len(sess[1].summaries) = 2
  /\ sess[1].summaries[1].value # sess[1].summaries[2].value
  /\ Len(ui.logs) = 5

\* C6: a session that ended on a complete event has the event's payload as
\* its answer, whatever content was accumulated before, one completion entry,
\* at the end of the log, no error, and the loading flag off.
C6_CompleteReplacesAnswer ==
  \A s \in Sessions :
    (Alone(s) /\ sess[s].dispatched # <<>>
       /\ IsType(Last(sess[s].dispatched).ev, "complete"))
      => /\ ui.researchResult = Get(Last(sess[s].dispatched).ev, "content")
         /\ Last(ui.logs) = Str(<<"Analysis complete">>)
         /\ Cardinality({i \in 1..Len(ui.logs) : ui.logs[i] = Str(<<"Analysis complete">>)}) = 1
         /\ ui.apiError = Null
         /\ ~ui.isLoading
         /\ sess[s].pc = "done"

\* content "a", then complete "H": the answer is "H".
C6_Witness ==
  /\ Len(sess[1].dispatched) = 2
  /\ sess[1].dispatched[1].ev = EvContentA
  /\ sess[1].dispatched[2].ev = EvComplete
  /\ ui.researchResult = Str(<<"H">>)

\* C7: a line with the prefix and an undecodable payload is handed to the
\* parser and nothing more: the frames dispatched are exactly the lines taken
\* that decode, the answer, the file list, the last error and the log are
\* those of the frames dispatched alone, and a session ends in the catch block
\* only with a failure of the configuration or of the transport.
C7_MalformedLineIsDropped ==
  \A s \in Sessions :
    /\ (Alone(s) /\ Streaming(s)) =>
         /\ [i \in 1..Len(sess[s].dispatched) |-> sess[s].dispatched[i].line]
              = SelectSeq(sess[s].emitted, IsFrameLine)
         /\ ui.researchResult = FrameAnswer(sess[s].dispatched)
         /\ ui.apiError
              = (IF sess[s].dispatched # <<>> /\ IsType(Last(sess[s].dispatched).ev, "error")
                 THEN Get(Last(sess[s].dispatched).ev, "content") ELSE Null)
         /\ Len(ui.logs) = Len(SetupLogs) + Len(FrameLogs(sess[s]))
    /\ (Alone(s) /\ sess[s].ended = "caught") => ui.apiError.v \in OuterErrors

\* A malformed line, then a complete frame: the session ended on the frame.
C7_Witness ==
  /\ sess[1].stream = StreamOf(<<LnMalformed, LnComplete>>, TRUE)
  /\ sess[1].emitted = <<LnMalformed, LnComplete>>
  /\ Len(sess[1].dispatched) = 1
  /\ sess[1].ended = "event"
  /\ ui.researchResult = Str(<<"H">>)
  /\ ui.apiError = Null

\* C8 (as claimed): every frame dispatched comes from a line that starts with
\* the prefix.
C8_OnlyPrefixedLinesDispatched ==
  \A s \in Sessions : \A i \in 1..Len(sess[s].dispatched) :
    startsWith(sess[s].dispatched[i].line, DataPrefix)

\* C8 (amended): every frame dispatched comes from a line that starts with the
\* prefix once the white space around it is removed, and handling any line
\* that does not leaves the state as it is and goes on to the next line.
C8_OnlyTrimmedPrefixedLinesDispatched ==
  /\ \A s \in Sessions : \A i \in 1..Len(sess[s].dispatched) :
       startsWith(trim(sess[s].dispatched[i].line), DataPrefix)
  /\ \A s \in Sessions : \A i \in 1..Len(sess[s].emitted) :
       ~startsWith(trim(sess[s].emitted[i]), DataPrefix)
         => /\ HandleLine(ui, sess[s].emitted[i]) = Ignored(ui, "next")
            /\ \A j \in 1..Len(sess[s].dispatched) :
                 sess[s].dispatched[j].line # sess[s].emitted[i]

\* A line with a tab for the space was taken and ignored; the frame after it
\* was dispatched.
C8_Witness ==
  /\ sess[1].emitted = <<LnTab, LnContentA>>
  /\ Len(sess[1].dispatched) = 1
  /\ ui.researchResult = Str(<<"a">>)
  /\ sess[1].ended = "closed"

\* C9 (as claimed): every summarizer call resolves with a string.
C9_SummaryIsAString ==
  \A s \in Sessions : \A i \in 1..Len(sess[s].summaries) :
    sess[s].summaries[i].value.k = "string"

Cut(t, n) == IF Len(t) > n THEN SubSeq(t, 1, n) \o <<"...">> ELSE t

\* The value the text given to cleanLog decodes to.
RouteData == JSONparse(route.arg.v).value

\* cleanLog was called with the JSON text of a record.
RecordGiven ==
  /\ route.fn = "cleanLog"
  /\ JSONparse(route.arg.v).ok
  /\ RouteData.k = "object"

Has(o, key) == Get(o, key).k # "undefined"

\* The first atoms of the phrases of cleanLog.
Phrases ==
  {"Searching for \"", "Reading file: ", "Listing directory: ",
   "Performing semantic search for: \"", "Analyzing symbol: ", "Using ",
   "Completed with result: ", "Processing: "}

\* One trailing "Tool" taken off a name.
LabelOf(name) ==
  IF name.k # "string" THEN toText(name)
  ELSE IF name.v # <<>> /\ name.v[Len(name.v)] = "Tool" THEN SubSeq(name.v, 1, Len(name.v) - 1)
  ELSE name.v

\* The field of the input when the input has it, the input otherwise, as text.
FieldOrInput(input, field) ==
  IF Has(input, field) THEN toText(Get(input, field)) ELSE toText(input)

\* The phrase claimed for a tool invocation with this name and input.
ToolPhrase(name, input) ==
  CASE LabelOf(name) \in {<<"Search">>, <<"RipGrep">>} ->
         <<"Searching for \"">> \o FieldOrInput(input, "query") \o <<"\"">>
    [] LabelOf(name) = <<"ViewFile">> -> <<"Reading file: ">> \o FieldOrInput(input, "path")
    [] LabelOf(name) = <<"ListDirectory">> ->
         <<"Listing directory: ">> \o FieldOrInput(input, "path")
    [] LabelOf(name) = <<"SemanticSearch">> ->
         <<"Performing semantic search for: \"">> \o FieldOrInput(input, "query") \o <<"\"">>
    [] LabelOf(name) = <<"RevealSymbol">> ->
         <<"Analyzing symbol: ">> \o FieldOrInput(input, "symbol")
    [] OTHER -> <<"Using ">> \o LabelOf(name) \o <<" tool with input: ">>
                \o Cut(stringifyText(input), CutShort)

\* The output as the phrase shows it: itself when it is text, its JSON text
\* otherwise.
OutputText(output) == IF output.k = "string" THEN output.v ELSE stringifyText(output)

C12_CutAndEllipsis ==
  (route.fn = "cleanLog" /\ route.value.k = "string") =>
    \E out \in {route.value.v} :
      IF out = <<>> \/ Head(out) \notin Phrases
      THEN out = Cut(route.arg.v, CutRaw)
      ELSE /\ Head(out) = "Using " =>
                \E i \in 1..Len(out) :
                  /\ out[i] = " tool with input: "
                  /\ SubSeq(out, i + 1, Len(out))
                       = Cut(stringifyText(Get(RouteData, "input")), CutShort)
           /\ Head(out) = "Completed with result: " =>
                Tail(out) = Cut(OutputText(Get(RouteData, "output")), CutShort)
           /\ Head(out) = "Processing: " =>
                Tail(out) = Cut(stringifyText(RouteData), CutShort)

\* An output of exactly 50 characters was returned whole.
C12_Witness ==
  /\ route.fn = "cleanLog"
  /\ route.arg = Str(stringifyText(Obj(<<Prop("output", Str(Xs(50)))>>)))
  /\ route.value = Str(<<"Completed with result: ">> \o Xs(50))

\* C13 (as claimed): for the JSON text of a record that has a name and an
\* input, cleanLog returns the phrase of the tool.
C13_ToolPhrasing ==
  (RecordGiven /\ Has(RouteData, "name") /\ Has(RouteData, "input"))
    => route.value = Str(ToolPhrase(Get(RouteData, "name"), Get(RouteData, "input")))

\* C14 (as claimed): for the JSON text of a record without a name and input
\* pair, cleanLog returns the completion phrase when the record has an output,
\* whatever its value, and the processing phrase only when it has none.
C14_OutputPhrasing ==
  (RecordGiven /\ ~(Has(RouteData, "name") /\ Has(RouteData, "input")))
    => IF Has(RouteData, "output")
       THEN route.value = Str(<<"Completed with result: ">>
                              \o Cut(OutputText(Get(RouteData, "output")), CutShort))
       ELSE route.value = Str(<<"Processing: ">> \o Cut(stringifyText(RouteData), CutShort))

\* A URL text that is missing or has no scheme.
BadEndpoint(url) == url = <<>> \/ Head(url) \notin {"https://", "http://"}

\* error.message of the configuration failure for this value of the variable.
ConfigError(url) ==
  IF url = <<>> THEN <<"NEXT_PUBLIC_MODAL_API_URL environment variable is not set">>
  ELSE <<"NEXT_PUBLIC_MODAL_API_URL is not a valid URL">>

\* error.message of the failures to reach the research API.
ConnectivityErrors ==
  {<<"Failed to fetch">>, <<"network error">>,
   <<"NetworkError", " when attempting to fetch resource.">>}

\* C15: a submission with the repository field or the question field empty
\* puts up the alert and changes nothing else: the answer, the log, the file
\* list, the last error and the loading flag stay as they are, no invocation
\* starts and none issues a request; an invocation that does start has both
\* fields filled.
C15_AbsentFieldFailsFast ==
  [][/\ \A s \in Sessions :
          sess'[s].pc = "wait1" => (sess'[s].repoUrl # <<>> /\ sess'[s].question # <<>>)
     /\ (alertMsg = <<>> /\ alertMsg' # <<>>) =>
          /\ alertMsg' \in {<<"Please enter a repository URL">>,
                            <<"Please enter a question about the codebase">>}
          /\ ui' = ui
          /\ sess' = sess
          /\ \A s \in Sessions : sess[s].pc = "idle" => sess'[s].calls = <<>>]_vars

\* The alert is up over the answer of a finished session, and the submission
\* that raised it started nothing.
C15_Witness ==
  /\ alertMsg = <<"Please enter a question about the codebase">>
  /\ sess[1].ended = "event"
  /\ ui.researchResult = Str(<<"H">>)
  /\ sess[2].pc = "idle"
  /\ sess[2].calls = <<>>

C17_HintIffConnectivity ==
  \A s \in Sessions :
    (Alone(s) /\ sess[s].ended = "caught") =>
      /\ ui.researchResult = Str(<<"Error: ">> \o ui.apiError.v)
      /\ (Last(ui.logs) = ConnectHint) <=> (ui.apiError.v \in ConnectivityErrors)

\* The payload of the last similar_files frame dispatched, the empty list
\* when there is none.
LastSimilar(ds) ==
  IF \E i \in 1..Len(ds) : IsType(ds[i].ev, "similar_files")
  THEN Get(ds[CHOOSE i \in 1..Len(ds) :
                /\ IsType(ds[i].ev, "similar_files")
                /\ \A j \in (i + 1)..Len(ds) : ~IsType(ds[j].ev, "similar_files")].ev,
           "content")
  ELSE Arr(<<>>)

\* How many entries of the log are this one.
CountLog(entry) == Cardinality({i \in 1..Len(ui.logs) : ui.logs[i] = entry})

\* A similar_files frame with a list of two other files.
EvSimilarOther ==
  Event(Str(<<"similar_files">>), Arr(<<Str(<<"g.ts">>), Str(<<"h.ts">>)>>), Undefined)

\* C18: dispatching an error event sets the answer to "Error: " and the
\* message, the last error to the message and the loading flag off, leaves
\* the log and the file list as they are and returns; a session that ended on
\* an error event shows that message whatever content came before, its log
\* and file list being those of the frames before the event.
C18_ErrorEventEndsSession ==
  /\ Dispatch(ui, EvError)
       = [ui |-> [ui EXCEPT !.researchResult = Str(<<"Error: ", "boom">>),
                            !.apiError = Str(<<"boom">>),
                            !.isLoading = FALSE],
          ctl |-> "return"]
  /\ \A s \in Sessions :
       (Alone(s) /\ sess[s].dispatched # <<>>
          /\ IsType(Last(sess[s].dispatched).ev, "error")) =>
         /\ ui.researchResult
              = Str(<<"Error: ">> \o Get(Last(sess[s].dispatched).ev, "content").v)
         /\ ui.apiError = Get(Last(sess[s].dispatched).ev, "content")
         /\ ~ui.isLoading
         /\ ui.logs = SetupLogs \o FrameLogs(sess[s])
         /\ ui.similarFiles = LastSimilar(sess[s].dispatched)
         /\ sess[s].pc = "done"
         /\ sess[s].ended = "event"

\* content "a", then error "boom": the answer is "Error: boom".
C18_Witness ==
  /\ Len(sess[1].dispatched) = 2
  /\ sess[1].dispatched[1].ev = EvContentA
  /\ sess[1].dispatched[2].ev = EvError
  /\ ui.researchResult = Str(<<"Error: ", "boom">>)
  /\ ui.apiError = Str(<<"boom">>)
  /\ ui.logs = SetupLogs

\* C19: dispatching a similar_files event makes the file list the payload,
\* appends the entry "Starting agent run" and changes nothing else, and the
\* loop goes on; in a session running alone the file list is the payload of
\* the last such frame, and the log has one such entry for each such line
\* taken from the stream, however the line was cut into chunks.
C19_SimilarFilesReplaced ==
  /\ Dispatch(ui, EvSimilarOther)
       = [ui |-> [ui EXCEPT !.similarFiles = Get(EvSimilarOther, "content"),
                            !.logs = ui.logs \o <<Str(<<"Starting agent run">>)>>],
          ctl |-> "next"]
  /\ \A s \in Sessions :
       (Alone(s) /\ Streaming(s)) =>
         /\ ui.similarFiles = LastSimilar(sess[s].dispatched)
         /\ CountLog(Str(<<"Starting agent run">>))
              = Cardinality({i \in 1..Len(sess[s].emitted) :
                               trim(sess[s].emitted[i]) = LnSimilar})

\* The first of two similar_files frames, read in chunks shorter than the
\* frame, was applied once; the second is being read.
C19_Witness ==
  /\ sess[1].stream = StreamOf(<<LnSimilar, LnSimilar>>, TRUE)
  /\ sess[1].pc = "reading"
  /\ sess[1].emitted = <<LnSimilar>>
  /\ sess[1].partialLine # <<>>
  /\ ui.similarFiles = Arr(<<Str(<<"f.ts">>)>>)
  /\ ui.logs = SetupLogs \o <<Str(<<"Starting agent run">>)>>
  /\ ui.researchResult = Str(<<>>)

\* C20: dispatching a content event appends its payload to the answer and
\* changes nothing else, and the loop goes on; in a session running alone,
\* as long as no terminal event was dispatched and the session has not ended
\* in the catch block, the answer is the payloads of the content events
\* dispatched, in their order.
C20_AnswerIsContentInOrder ==
  /\ \A ev \in {EvContentA, EvContentE} :
       Dispatch(ui, ev)
         = [ui |-> [ui EXCEPT !.researchResult
                                = Str(ui.researchResult.v \o Get(ev, "content").v)],
            ctl |-> "next"]
  /\ \A s \in Sessions :
       (Alone(s) /\ Streaming(s)
          /\ \A i \in 1..Len(sess[s].dispatched) : ~IsTerminalEvent(sess[s].dispatched[i].ev))
         => ui.researchResult
              = Str([i \in 1..Cardinality({j \in 1..Len(sess[s].dispatched) :
                                             IsType(sess[s].dispatched[j].ev, "content")}) |->
                       Get(SelectSeq(sess[s].dispatched,
                                     LAMBDA d : IsType(d.ev, "content"))[i].ev,
                           "content").v[1]])

\* "a" then the two-byte character: the answer holds both, in that order,
\* and the stream is still being read.
C20_Witness ==
  /\ sess[1].pc = "reading"
  /\ Len(sess[1].dispatched) = 2
  /\ sess[1].dispatched[1].ev = EvContentA
  /\ sess[1].dispatched[2].ev = EvContentE
  /\ ui.researchResult = Str(<<"a", EAcute>>)
  /\ ui.isLoading

-----------------------------------------------------------------------------
(* Frames the dispatcher has no branch for *)

KnownTypes ==
  {"similar_files", "content", "error", "complete", "on_tool_start", "on_tool_end"}

\* A record whose type is none of the six, or that has no type.
IsOtherType(ev) ==
  ev.k = "object" /\ \A w \in KnownTypes : ~IsType(ev, w)

\* The frames session s dispatches in a step, and the lines it takes.
NewFrames(s) ==
  SubSeq(sess'[s].dispatched, Len(sess[s].dispatched) + 1, Len(sess'[s].dispatched))

NewLines(s) ==
  SubSeq(sess'[s].emitted, Len(sess[s].emitted) + 1, Len(sess'[s].emitted))

\* C21: dispatching a record of another type, or of no type, changes nothing
\* and the loop goes on; a step in which the session dispatches only such
\* frames leaves the answer, the file list, the last error and the loading
\* flag as they are, adds nothing to the log but the value of the summarizer
\* call that returned in that step, issues no request, and ends with the
\* session awaiting the next read; and after such a frame a line that holds
\* a frame of a known type is still dispatched.
C21_OtherTypeIgnored ==
  [][\A s \in Sessions :
       /\ \A ev \in {EvPing, EvNoType} :
            Dispatch(ui, ev) = [ui |-> ui, ctl |-> "next"]
       /\ (NewFrames(s) # <<>>
             /\ \A i \in 1..Len(NewFrames(s)) : IsOtherType(NewFrames(s)[i].ev)) =>
            /\ sess[s].pc = "reading" => ui' = ui
            /\ sess[s].pc = "summarizing" =>
                 /\ [ui' EXCEPT !.logs = <<>>] = [ui EXCEPT !.logs = <<>>]
                 /\ Front(ui'.logs) = ui.logs
                 /\ Len(sess'[s].summaries) = Len(sess[s].summaries) + 1
                 /\ Last(ui'.logs) = Last(sess'[s].summaries).value
            /\ sess'[s].calls = sess[s].calls
            /\ sess'[s].pc = "reading"
       /\ ((\E i \in 1..Len(sess[s].dispatched) : IsOtherType(sess[s].dispatched[i].ev))
             /\ NewLines(s) # <<>>
             /\ Head(NewLines(s)) \in {LnContentA, LnToolStart, LnComplete}) =>
            /\ NewFrames(s) # <<>>
            /\ NewFrames(s)[1].line = Head(NewLines(s))]_vars

\* A frame without a type, then a complete frame: both were dispatched, the
\* answer is that of the complete frame and the only request is the fetch of
\* the stream.
C21_Witness ==
  /\ sess[1].stream = StreamOf(<<LnNoType, LnComplete>>, TRUE)
  /\ Len(sess[1].dispatched) = 2
  /\ sess[1].dispatched[1].ev = EvNoType
  /\ sess[1].ended = "event"
  /\ Len(sess[1].calls) = 1
  /\ ui.researchResult = Str(<<"H">>)
  /\ ui.logs = SetupLogs \o <<Str(<<"Analysis complete">>)>>

\* C22: when the read reports the end of the stream the session returns with
\* the loading flag off and nothing else changed: no line is taken, no frame
\* dispatched and no request issued, whatever the kept partial line holds;
\* at every moment the lines taken are lines of the stream that are ended by
\* a line terminator, so a last frame without one is never taken.
C22_RemainderDiscarded ==
  [][\A s \in Sessions :
       /\ (sess[s].pc = "reading" /\ sess'[s].ended = "closed") =>
            /\ ui' = [ui EXCEPT !.isLoading = FALSE]
            /\ sess'[s].emitted = sess[s].emitted
            /\ sess'[s].dispatched = sess[s].dispatched
            /\ sess'[s].calls = sess[s].calls
            /\ sess'[s].summaries = sess[s].summaries
       /\ IsPrefix(sess'[s].emitted, OneChunk(sess'[s].stream).lines)]_vars

\* content "a" and its LF, then a complete frame without LF: the stream was
\* read to its end and closed, and the complete frame was never dispatched.
C22_Witness ==
  /\ sess[1].stream = StreamOf(<<LnContentA, LnComplete>>, FALSE)
  /\ sess[1].ended = "closed"
  /\ sess[1].emitted = <<LnContentA>>
  /\ Len(sess[1].dispatched) = 1
  /\ ui.researchResult = Str(<<"a">>)
  /\ ui.logs = SetupLogs
  /\ ~ui.isLoading

\* Session s is the latest submission and has dispatched no frame yet.
FreshSession(s) ==
  /\ sess[s].pc \in {"wait1", "wait2", "fetching", "reading"}
  /\ sess[s].dispatched = <<>>
  /\ \A t \in Sessions : sess[t].order <= sess[s].order

\* C23 (as claimed): from its submission until its first frame is
\* dispatched, the latest session sees an empty answer, an empty file list,
\* no last error and a log that holds only its own setup entries.
C23_NewSessionStartsClean ==
  \A s \in Sessions :
    FreshSession(s) =>
      /\ ui.researchResult = Str(<<>>)
      /\ ui.similarFiles = Arr(<<>>)
      /\ ui.apiError = Null
      /\ IsPrefix(ui.logs, SetupLogs)

\* The tool events among the frames session s has dispatched.
ToolFrames(s) ==
  Cardinality({i \in 1..Len(sess[s].dispatched) : IsToolEvent(sess[s].dispatched[i].ev)})

\* C24: a read delivers a chunk to a session only when the session awaits
\* the read: every complete line of the bytes read before has been taken,
\* none is left over from the chunk before, and every summarizer call issued
\* for a tool event has returned; while a summarizer call is awaited no
\* chunk is read.
C24_ChunksOneAtATime ==
  [][\A s \in Sessions :
       sess'[s].pos > sess[s].pos =>
         /\ sess[s].pc = "reading"
         /\ sess[s].rest = <<>>
         /\ sess[s].logData = Undefined
         /\ sess[s].emitted = OneChunk(SubSeq(sess[s].stream, 1, sess[s].pos)).lines
         /\ Len(sess[s].summaries) = ToolFrames(s)
         /\ Len(sess[s].calls) = 1 + ToolFrames(s)]_vars

\* The summarizer call of a tool frame is awaited while the stream holds
\* bytes that were not read.
C24_Witness ==
  /\ sess[1].stream = StreamOf(<<LnToolStart, LnContentA>>, TRUE)
  /\ sess[1].pc = "summarizing"
  /\ sess[1].pos < Len(sess[1].stream)
  /\ sess[1].emitted = <<LnToolStart>>
  /\ sess[1].rest = <<>>
  /\ Len(sess[1].calls) = 2
  /\ ui.logs = SetupLogs

\* The invocation s has passed the checks of the fields and has not returned.
Started(s) == sess[s].pc \notin {"idle", "done"}

\* The invocation s has returned and the loading flag is off.
Over(s) == sess[s].pc = "done" /\ ~ui.isLoading

C26_LoadingFlagAccurate ==
  (\E s \in Sessions : Started(s)) => ui.isLoading

\* Lines whose payload decodes to a value that is no record: null, whose
\* type cannot be read, and 5, [] and true, whose type is undefined.
NoRecordLines == {LnNull, LnNumber, LnArray, LnTrue}

\* C27: a line whose payload decodes to no record is handled as a line whose
\* payload does not decode: nothing changes and the for loop goes on; a step
\* in which the session takes only such lines leaves the answer, the file
\* list, the last error and the loading flag as they are, adds nothing to
\* the log but the value of the summarizer call that returned in that step,
\* issues no request and ends with the session awaiting the next read, not
\* in the catch block; and after such a line a line that holds a frame of a
\* known type is still dispatched.
C27_DispatchExceptionAbsorbed ==
  [][\A s \in Sessions :
       /\ \A raw \in NoRecordLines :
            /\ HandleLine(ui, raw).ui = ui
            /\ HandleLine(ui, raw).ctl = HandleLine(ui, LnMalformed).ctl
            /\ HandleLine(ui, raw).ctl = "next"
       /\ HandleLine(ui, LnNull) = HandleLine(ui, LnMalformed)
       /\ (NewLines(s) # <<>>
             /\ \A i \in 1..Len(NewLines(s)) : NewLines(s)[i] \in NoRecordLines) =>
            /\ [ui' EXCEPT !.logs = <<>>] = [ui EXCEPT !.logs = <<>>]
            /\ sess[s].pc = "reading" => ui'.logs = ui.logs
            /\ sess[s].pc = "summarizing" => Front(ui'.logs) = ui.logs
            /\ sess'[s].calls = sess[s].calls
            /\ sess'[s].pc = "reading"
            /\ sess'[s].ended = "no"
       /\ ((\E i \in 1..Len(sess[s].emitted) : sess[s].emitted[i] \in NoRecordLines)
             /\ NewLines(s) # <<>>
             /\ Head(NewLines(s)) \in {LnContentA, LnToolStart, LnComplete}) =>
            /\ NewFrames(s) # <<>>
            /\ NewFrames(s)[1].line = Head(NewLines(s))]_vars

\* The payload null, then a complete frame: the first line was taken and
\* dropped, the session ended on the complete frame without an error.
C27_Witness ==
  /\ sess[1].stream = StreamOf(<<LnNull, LnComplete>>, TRUE)
  /\ sess[1].emitted = <<LnNull, LnComplete>>
  /\ Len(sess[1].dispatched) = 1
  /\ sess[1].ended = "event"
  /\ ui.researchResult = Str(<<"H">>)
  /\ ui.apiError = Null
  /\ ui.logs = SetupLogs \o <<Str(<<"Analysis complete">>)>>

\* C28: when a read fails, the answer becomes "Error: " and the message of
\* the failure, whatever content was there, the last error becomes that
\* message and the loading flag goes off; the file list stays, the log stays
\* or gains the connectivity hint as its last entry, and no frame is
\* dispatched.
C28_ReadFailureKeepsLogAndFiles ==
  [][\A s \in Sessions :
       (sess[s].pc = "reading" /\ sess'[s].ended = "caught") =>
         /\ \E error \in ReadRejections :
              /\ ui'.researchResult = Str(<<"Error: ">> \o errorMessage(error))
              /\ ui'.apiError = Str(errorMessage(error))
         /\ ~ui'.isLoading
         /\ ui'.similarFiles = ui.similarFiles
         /\ ui'.logs \in {ui.logs, Append(ui.logs, ConnectHint)}
         /\ sess'[s].dispatched = sess[s].dispatched
         /\ sess'[s].pc = "done"]_vars

\* A similar_files frame and content "a" were dispatched, then the read
\* failed: the answer is the error, the files and the log entry are kept.
C28_Witness ==
  /\ sess[1].ended = "caught"
  /\ Len(sess[1].dispatched) = 2
  /\ sess[1].dispatched[1].ev = EvSimilar
  /\ sess[1].dispatched[2].ev = EvContentA
  /\ ui.researchResult = Str(<<"Error: ", "network error">>)
  /\ ui.apiError = Str(<<"network error">>)
  /\ ui.similarFiles = Arr(<<Str(<<"f.ts">>)>>)
  /\ ui.logs = SetupLogs \o <<Str(<<"Starting agent run">>)>>
  /\ ~ui.isLoading

\* The payloads of the content frames among ds, one after the other.
ContentOf(ds) ==
  Str(Flatten([i \in 1..Len(ds) |->
                 IF IsType(ds[i].ev, "content") THEN toText(Get(ds[i].ev, "content"))
                 ELSE <<>>]))

\* C29: when the stream of a session running alone closes, no complete and
\* no error event was dispatched, and the session returns without an error:
\* the loading flag is off, the last error is unset, the answer is the
\* payloads of the content events dispatched, in their order, and the log is
\* as it was, without a completion entry.
C29_CloseWithoutTerminalEvent ==
  [][\A s \in Sessions :
       (Alone(s) /\ sess[s].pc = "reading" /\ sess'[s].ended = "closed") =>
         /\ \A i \in 1..Len(sess'[s].dispatched) :
              ~IsTerminalEvent(sess'[s].dispatched[i].ev)
         /\ sess'[s].pc = "done"
         /\ ~ui'.isLoading
         /\ ui'.apiError = Null
         /\ ui'.researchResult = ContentOf(sess'[s].dispatched)
         /\ ui'.logs = ui.logs
         /\ \A i \in 1..Len(ui'.logs) : ui'.logs[i] # Str(<<"Analysis complete">>)]_vars

\* Two content frames, then the stream closed: the answer is both payloads,
\* there is no error and no completion entry.
C29_Witness ==
  /\ sess[1].stream = StreamOf(<<LnContentA, LnContentE>>, TRUE)
  /\ sess[1].ended = "closed"
  /\ Len(sess[1].dispatched) = 2
  /\ ui.researchResult = Str(<<"a", EAcute>>)
  /\ ui.apiError = Null
  /\ ui.logs = SetupLogs
  /\ ~ui.isLoading

\* C30 (as claimed): when the prop changes to a value that is not empty and
\* the endpoint is configured, a request is issued for that value; and once
\* no request is pending, the repository shown is the one requested last.
C30_RequestForNewPropLatestShown ==
  /\ [][(analytics'.prop # analytics.prop /\ analytics'.prop # <<>> /\ IsUrl(modalApiUrl)) =>
          /\ Len(analytics'.issued) = Len(analytics.issued) + 1
          /\ Last(analytics'.issued) = parseAnalyticsRepoUrl(analytics'.prop)]_vars
  /\ []((analytics.pending = {} /\ analytics.repoData # Null) =>
          Get(analytics.repoData, "name") = Str(Last(analytics.issued)))

====
